---- MODULE Spec2Model ----
(***************************************************************************)
(* cicd/upload.py: upload one local file to an OSS bucket and print its    *)
(* public URL.                                                             *)
(*                                                                         *)
(* A Python str is a sequence of one-character strings (<<"a", "/">>), so  *)
(* that strip, rstrip, startswith, replace, quote, repr and pathlib's      *)
(* rendering are computed character by character.  Literal text of         *)
(* f-strings that no code inspects is kept as a TLA+ string: a printed     *)
(* line is the record [text |-> literal, arg |-> interpolated characters]. *)
(***************************************************************************)
EXTENDS Integers, Sequences, FiniteSets, TLC

VARIABLES
    pc,                \* position of the process in main / upload_with_oss2
    argv,              \* sys.argv[1:]
    environ,           \* os.environ: name -> [set, val]
    args,              \* argparse.Namespace returned by parse_args
    local_file,        \* str(Path(args.file))
    endpoint,          \* normalized endpoint
    bucket_name,
    object_key,
    imported,          \* "import oss2" succeeded
    lookups,           \* names passed to os.getenv, in order
    access_key_id,
    access_key_secret,
    security_token,    \* os.getenv("FINE_OSS_SECURITY_TOKEN", "").strip()
    auth,              \* "none" | "Auth" | "StsAuth"
    puts,              \* calls of bucket.put_object_from_file, in order
    result,            \* result.status of the put, -1 before it
    download_url,
    error,             \* the exception travelling to "except Exception"
    stdout_mode,       \* what sys.stdout is connected to, and its encoding
    pending_bytes,     \* bytes sys.stdout holds back before its buffer (TextIOWrapper)
    buffered_bytes,    \* bytes in the buffer of sys.stdout (BufferedWriter)
    stdout,            \* lines written to sys.stdout
    stderr,            \* lines written to sys.stderr
    ret,               \* value returned by main(), -1 while it has not returned
    sysexit,           \* code carried by the SystemExit raised, -1 before it
    exit_code,         \* exit status of the process, -1 while it runs
    call,              \* a direct call of one of the helper functions
    out                \* value or error of that call

vars == <<pc, argv, environ, args, local_file, endpoint, bucket_name, object_key,
          imported, lookups, access_key_id, access_key_secret, security_token, auth,
          puts, result, download_url, error, stdout_mode, pending_bytes, buffered_bytes, stdout, stderr,
          ret, sysexit, exit_code,
          call, out>>

(***************************************************************************)
(* Bounds of the explored inputs.                                          *)
(***************************************************************************)
MaxPathLen == 2      \* characters of a --file argument
MaxKeyLen == 2       \* characters of an --object-key argument
MaxChunks == 3       \* pieces of a raw endpoint handed to normalize_endpoint
MaxAliases == 2      \* aliases handed to require_env
MaxUrlKeyLen == 2    \* characters of a key handed to build_public_url

(***************************************************************************)
(* Program constants, upload.py:13-15.                                     *)
(***************************************************************************)
DEFAULT_ZIP_PATH == <<"d", "i", "s", "t", "/", "o", "b", "s", "i", "d", "i", "a", "n", "-", "p", "u", "b", "l", "i", "s", "h", "-", "e", "v", "e", "r", "y", "w", "h", "e", "r", "e", ".", "z", "i", "p">>
DEFAULT_BUCKET == <<"f", "i", "n", "e", "-", "b", "u", "i", "l", "d">>
DEFAULT_OBJECT_KEY == <<"t", "e", "s", "t", "/", "o", "b", "s", "i", "d", "i", "a", "n", "-", "p", "u", "b", "l", "i", "s", "h", "-", "e", "v", "e", "r", "y", "w", "h", "e", "r", "e", ".", "z", "i", "p">>

HTTP == <<"h", "t", "t", "p", ":", "/", "/">>
HTTPS == <<"h", "t", "t", "p", "s", ":", "/", "/">>

(***************************************************************************)
(* Characters.  A character is a one-character string; the tables list the *)
(* code points 1 to 255 in order, without the backquote (96), which a      *)
(* TLA+ string cannot hold.  Of the characters beyond 255 the strings hold *)
(* the Ogham space mark (U+1680, 5760), a whitespace character of three    *)
(* bytes that is neither ASCII nor printable.                              *)
(***************************************************************************)
Controls == <<"", "", "", "", "", "", "", "", "\t", "\n", "", "\f", "\r", "", "", "", "", "", "", "", "", "", "", "", "", "", "", "", "", "", "">>
Printable == <<" ", "!", "\"", "#", "$", "%", "&", "'", "(", ")", "*", "+", ",", "-", ".", "/", "0", "1", "2", "3", "4", "5", "6", "7", "8", "9", ":", ";", "<", "=", ">", "?", "@", "A", "B", "C", "D", "E", "F", "G", "H", "I", "J", "K", "L", "M", "N", "O", "P", "Q", "R", "S", "T", "U", "V", "W", "X", "Y", "Z", "[", "\\", "]", "^", "_">>
PrintableHigh == <<"a", "b", "c", "d", "e", "f", "g", "h", "i", "j", "k", "l", "m", "n", "o", "p", "q", "r", "s", "t", "u", "v", "w", "x", "y", "z", "{", "|", "}", "~">>
Latin1High == <<"", "", "", "", "", "", "", "", "", "", "", "", "", "", "", "", "", "", "", "", "", "", "", "", "", "", "", "", "", "", "", "", "", " ", "¡", "¢", "£", "¤", "¥", "¦", "§", "¨", "©", "ª", "«", "¬", "­", "®", "¯", "°", "±", "²", "³", "´", "µ", "¶", "·", "¸", "¹", "º", "»", "¼", "½", "¾", "¿", "À", "Á", "Â", "Ã", "Ä", "Å", "Æ", "Ç", "È", "É", "Ê", "Ë", "Ì", "Í", "Î", "Ï", "Ð", "Ñ", "Ò", "Ó", "Ô", "Õ", "Ö", "×", "Ø", "Ù", "Ú", "Û", "Ü", "Ý", "Þ", "ß", "à", "á", "â", "ã", "ä", "å", "æ", "ç", "è", "é", "ê", "ë", "ì", "í", "î", "ï", "ð", "ñ", "ò", "ó", "ô", "õ", "ö", "÷", "ø", "ù", "ú", "û", "ü", "ý", "þ", "ÿ">>
OGHAM_SPACE_MARK == " "

\* chr(n), n in CodePoints
Chr(n) ==
    IF n = 5760 THEN OGHAM_SPACE_MARK
    ELSE IF n < 32 THEN Controls[n]
    ELSE IF n < 96 THEN Printable[n - 31]
    ELSE IF n < 127 THEN PrintableHigh[n - 96]
    ELSE Latin1High[n - 126]

CodePoints == ((1..255) \ {96}) \cup {5760}

\* the characters that are not ASCII
NonAscii == {Chr(n) : n \in CodePoints \ (1..127)}

\* the characters of three bytes in UTF-8
ThreeBytes == {Chr(n) : n \in CodePoints \ (1..2047)}

\* ord(c)
Ord(c) == CHOOSE n \in CodePoints : Chr(n) = c

\* len(s.encode("utf-8")): one byte for an ASCII character, two up to U+07FF,
\* three beyond
Utf8Len(s) ==
    Len(s) + Cardinality({i \in 1..Len(s) : s[i] \in NonAscii})
           + Cardinality({i \in 1..Len(s) : s[i] \in ThreeBytes})

\* the bytes of c.encode("utf-8")
Utf8Bytes(c) ==
    IF Ord(c) < 128 THEN <<Ord(c)>>
    ELSE IF Ord(c) < 2048 THEN <<192 + (Ord(c) \div 64), 128 + (Ord(c) % 64)>>
    ELSE <<224 + (Ord(c) \div 4096), 128 + ((Ord(c) \div 64) % 64), 128 + (Ord(c) % 64)>>

HexUpper == <<"0", "1", "2", "3", "4", "5", "6", "7", "8", "9", "A", "B", "C", "D", "E", "F">>
HexLower == <<"0", "1", "2", "3", "4", "5", "6", "7", "8", "9", "a", "b", "c", "d", "e", "f">>

\* the escape that repr(), the backslashreplace handler and the text of a
\* UnicodeEncodeError write for a character: \xNN up to 255, \uNNNN beyond
HexEscape(c) ==
    LET n == Ord(c)
    IN IF n < 256
       THEN <<"\\", "x", HexLower[(n \div 16) + 1], HexLower[(n % 16) + 1]>>
       ELSE <<"\\", "u", HexLower[((n \div 4096) % 16) + 1], HexLower[((n \div 256) % 16) + 1],
              HexLower[((n \div 16) % 16) + 1], HexLower[(n % 16) + 1]>>

(***************************************************************************)
(* str methods.                                                            *)
(***************************************************************************)
\* the characters str.strip() removes (str.isspace): tab, newline, vertical
\* tab, form feed, carriage return, the separators 28 to 31, the space, the
\* next-line control 133, the no-break space 160 and the Ogham space mark
Whitespace ==
    {Chr(n) : n \in {9, 10, 11, 12, 13, 28, 29, 30, 31, 32, 133, 160}} \cup {OGHAM_SPACE_MARK}

RECURSIVE LStripChars(_, _)
LStripChars(s, chars) ==
    IF s # <<>> /\ Head(s) \in chars THEN LStripChars(Tail(s), chars) ELSE s

RECURSIVE RStripChars(_, _)
RStripChars(s, chars) ==
    IF s # <<>> /\ s[Len(s)] \in chars
    THEN RStripChars(SubSeq(s, 1, Len(s) - 1), chars)
    ELSE s

\* mutant: lstrip where strip was meant
StripChars_LeftOnly(s, chars) == LStripChars(s, chars)

\* s.strip(chars)
StripChars(s, chars) == RStripChars(LStripChars(s, chars), chars)

\* s.strip()
Strip(s) == StripChars(s, Whitespace)

\* s.startswith(p)
StartsWith(s, p) == Len(s) >= Len(p) /\ SubSeq(s, 1, Len(p)) = p

\* c in s
Contains(s, c) == \E i \in 1..Len(s) : s[i] = c

\* s.replace(old, ""): every non-overlapping occurrence, left to right
RECURSIVE RemoveAll(_, _)
RemoveAll(s, old) ==
    IF s = <<>> THEN <<>>
    ELSE IF StartsWith(s, old) THEN RemoveAll(SubSeq(s, Len(old) + 1, Len(s)), old)
    ELSE <<Head(s)>> \o RemoveAll(Tail(s), old)

\* sep.join(items), items being strings kept whole
RECURSIVE Join(_, _)
Join(sep, items) ==
    IF items = <<>> THEN <<>>
    ELSE IF Len(items) = 1 THEN <<items[1]>>
    ELSE <<items[1], sep>> \o Join(sep, Tail(items))

\* str(n) of a non-negative int
RECURSIVE Digits(_)
Digits(n) ==
    LET d == <<"0", "1", "2", "3", "4", "5", "6", "7", "8", "9">>[(n % 10) + 1]
    IN IF n < 10 THEN <<d>> ELSE Digits(n \div 10) \o <<d>>

\* all sequences over alphabet of length at most n
RECURSIVE Strings(_, _)
Strings(alphabet, n) ==
    IF n = 0 THEN {<<>>}
    ELSE LET shorter == Strings(alphabet, n - 1)
         IN shorter \cup {s \o <<c>> : s \in shorter, c \in alphabet}

\* "".join(chunks), the halves joined so that the depth stays logarithmic
RECURSIVE Flatten(_)
Flatten(chunks) ==
    IF chunks = <<>> THEN <<>>
    ELSE IF Len(chunks) = 1 THEN chunks[1]
    ELSE LET half == Len(chunks) \div 2
         IN Flatten(SubSeq(chunks, 1, half)) \o Flatten(SubSeq(chunks, half + 1, Len(chunks)))

(***************************************************************************)
(* repr(s) of a str: single quotes unless s holds one and no double quote; *)
(* backslash and the quote in use are escaped with a backslash, tab,       *)
(* newline and carriage return are written \t, \n, \r, and every other     *)
(* character that is not printable (str.isprintable) is written \xNN, or   *)
(* \uNNNN beyond 255.                                                      *)
(***************************************************************************)
\* the characters for which str.isprintable() is false
NonPrintable == {Chr(n) : n \in (1..31) \cup (127..160) \cup {173, 5760}}

ReprChar(c, q) ==
    CASE c = "\\" -> <<"\\", "\\">>
      [] c = "\t" -> <<"\\", "t">>
      [] c = "\n" -> <<"\\", "n">>
      [] c = "\r" -> <<"\\", "r">>
      [] c = q -> <<"\\", q>>
      [] c \in NonPrintable /\ c \notin {"\t", "\n", "\r"} -> HexEscape(c)
      [] OTHER -> <<c>>

ReprBody(s, q) == Flatten([i \in 1..Len(s) |-> ReprChar(s[i], q)])

Repr(s) ==
    LET q == IF Contains(s, "'") /\ ~Contains(s, "\"") THEN "\"" ELSE "'"
    IN <<q>> \o ReprBody(s, q) \o <<q>>

(***************************************************************************)
(* urllib.parse.quote(s) with its default safe="/".                        *)
(***************************************************************************)
Unreserved == {"a", "b", "c", "d", "e", "f", "g", "h", "i", "j", "k", "l", "m", "n", "o", "p", "q", "r", "s", "t", "u", "v", "w", "x", "y", "z", "A", "B", "C", "D", "E", "F", "G", "H", "I", "J", "K", "L", "M", "N", "O", "P", "Q", "R", "S", "T", "U", "V", "W", "X", "Y", "Z", "0", "1", "2", "3", "4", "5", "6", "7", "8", "9", "_", ".", "-", "~"}

\* %XX of one byte
PercentByte(b) == <<"%", HexUpper[(b \div 16) + 1], HexUpper[(b % 16) + 1]>>

\* the %XX codes of the UTF-8 bytes of c
PercentCode(c) == Flatten([i \in 1..Len(Utf8Bytes(c)) |-> PercentByte(Utf8Bytes(c)[i])])

QuoteChar(c) ==
    IF c \in Unreserved \cup {"/"} THEN <<c>> ELSE PercentCode(c)

quote(s) == Flatten([i \in 1..Len(s) |-> QuoteChar(s[i])])

(***************************************************************************)
(* str(pathlib.Path(s)) on POSIX: repeated slashes and "." components are  *)
(* dropped, exactly two leading slashes are kept, "" is rendered ".".      *)
(***************************************************************************)
\* where the component of s that starts at i ends
ComponentEnd(s, i) ==
    CHOOSE j \in i..Len(s) :
        /\ j = Len(s) \/ s[j + 1] = "/"
        /\ \A k \in i..j : s[k] # "/"

\* the components of s from position i on, "" and "." left out
RECURSIVE PartsFrom(_, _)
PartsFrom(s, i) ==
    IF i > Len(s) THEN <<>>
    ELSE IF s[i] = "/" THEN PartsFrom(s, i + 1)
    ELSE LET j == ComponentEnd(s, i)
             part == SubSeq(s, i, j)
         IN (IF part = <<".">> THEN <<>> ELSE <<part>>) \o PartsFrom(s, j + 2)

PathParts(s) == PartsFrom(s, 1)

PathRoot(s) ==
    LET lead == Len(s) - Len(LStripChars(s, {"/"}))
    IN IF lead = 0 THEN <<>> ELSE IF lead = 2 THEN <<"/", "/">> ELSE <<"/">>

RECURSIVE JoinPath(_)
JoinPath(parts) ==
    IF parts = <<>> THEN <<>>
    ELSE IF Len(parts) = 1 THEN parts[1]
    ELSE parts[1] \o <<"/">> \o JoinPath(Tail(parts))

PathStr(s) ==
    LET rendered == PathRoot(s) \o JoinPath(PathParts(s))
    IN IF rendered = <<>> THEN <<".">> ELSE rendered

(***************************************************************************)
(* os.getenv(name, default)                                                *)
(***************************************************************************)
getenv(env, name, default) == IF env[name].set THEN env[name].val ELSE default

(***************************************************************************)
(* require_env, upload.py:33-40.  The value returned, or the RuntimeError. *)
(***************************************************************************)
RECURSIVE FirstNonBlank(_, _)
FirstNonBlank(env, candidates) ==
    IF candidates = <<>> THEN 0
    ELSE IF Strip(getenv(env, Head(candidates), <<>>)) # <<>> THEN 1
    ELSE LET rest == FirstNonBlank(env, Tail(candidates))
         IN IF rest = 0 THEN 0 ELSE rest + 1

\* mutant: the value is tested before it is stripped, so a whitespace-only
\* candidate wins
RECURSIVE FirstNonEmpty(_, _)
FirstNonEmpty(env, candidates) ==
    IF candidates = <<>> THEN 0
    ELSE IF getenv(env, Head(candidates), <<>>) # <<>> THEN 1
    ELSE LET rest == FirstNonEmpty(env, Tail(candidates))
         IN IF rest = 0 THEN 0 ELSE rest + 1

require_env_TestBeforeStrip(env, name, aliases) ==
    LET candidates == <<name>> \o aliases
        i == FirstNonEmpty(env, candidates)
    IN IF i > 0
       THEN [ok |-> TRUE, value |-> Strip(getenv(env, candidates[i], <<>>)),
             read |-> SubSeq(candidates, 1, i)]
       ELSE [ok |-> FALSE,
             value |-> [text |-> "Missing required env var: ",
                        arg |-> Join(", ", candidates)],
             read |-> candidates]

require_env(env, name, aliases) ==
    LET candidates == <<name>> \o aliases
        i == FirstNonBlank(env, candidates)
    IN IF i > 0
       THEN [ok |-> TRUE, value |-> Strip(getenv(env, candidates[i], <<>>)),
             read |-> SubSeq(candidates, 1, i)]
       ELSE [ok |-> FALSE,
             value |-> [text |-> "Missing required env var: ",
                        arg |-> Join(", ", candidates)],
             read |-> candidates]

(***************************************************************************)
(* normalize_endpoint, upload.py:43-47                                     *)
(***************************************************************************)
normalize_endpoint(raw_endpoint) ==
    LET e == Strip(raw_endpoint)
    IN IF StartsWith(e, HTTP) \/ StartsWith(e, HTTPS)
       THEN RStripChars(e, {"/"})
       ELSE HTTPS \o StripChars(e, {"/"})

(***************************************************************************)
(* build_public_url, upload.py:50-53                                       *)
(***************************************************************************)
build_public_url(ep, bucket, key) ==
    LET host == RemoveAll(RemoveAll(ep, HTTPS), HTTP)
        encoded_key == quote(key)
    IN HTTPS \o bucket \o <<".">> \o host \o <<"/">> \o encoded_key

(***************************************************************************)
(* parse_args, upload.py:18-30: argparse.ArgumentParser.parse_args of       *)
(* Python 3.11 for a parser holding -h/--help, --file and --object-key.    *)
(* Every argument before the first "--" is classified as an option ("O")   *)
(* or a plain argument ("A"); the options are then consumed left to right. *)
(* An option is matched by its full name or any unambiguous prefix of it,  *)
(* and takes its value from the next plain argument or after "=".  --help  *)
(* prints the help and exits 0 where it stands, a usage error exits 2, and *)
(* what is left over is reported (exit 2) at the end.  All these exits are *)
(* SystemExit raised inside parse_args.                                    *)
(***************************************************************************)
OPT_FILE == <<"-", "-", "f", "i", "l", "e">>
OPT_OBJECT_KEY == <<"-", "-", "o", "b", "j", "e", "c", "t", "-", "k", "e", "y">>
OPT_HELP == <<"-", "-", "h", "e", "l", "p">>
OPT_H == <<"-", "h">>
OPT_BOGUS == <<"-", "-", "b", "o", "g", "u", "s">>
TERMINATOR == <<"-", "-">>

\* the option strings in the order they were registered
OptionStrings == <<OPT_H, OPT_HELP, OPT_FILE, OPT_OBJECT_KEY>>

ActionOf(option_string) ==
    IF option_string = OPT_FILE THEN "file"
    ELSE IF option_string = OPT_OBJECT_KEY THEN "object_key"
    ELSE "help"

\* the name of an action in an error message: its option strings joined by "/"
ActionName(action) ==
    CASE action = "file" -> "--file"
      [] action = "object_key" -> "--object-key"
      [] OTHER -> "-h/--help"

\* what argparse makes of the value "--" given after "=": it removes it from
\* the option's arguments and stores the list that is left, []
EMPTY_LIST == <<"[]">>

UsageLine == [text |-> "usage: upload.py [-h] [--file FILE] [--object-key OBJECT_KEY]", arg |-> <<>>]

\* the help as formatted for an 80-column terminal, the empty lines left out
HelpLines ==
    << UsageLine,
       [text |-> "Upload plugin zip to OSS", arg |-> <<>>],
       [text |-> "options:", arg |-> <<>>],
       [text |-> "  -h, --help            show this help message and exit", arg |-> <<>>],
       [text |-> "  --file FILE           Local zip file path (default: dist/obsidian-publish-", arg |-> <<>>],
       [text |-> "                        everywhere.zip)", arg |-> <<>>],
       [text |-> "  --object-key OBJECT_KEY", arg |-> <<>>],
       [text |-> "                        OSS object key (default: test/obsidian-publish-", arg |-> <<>>],
       [text |-> "                        everywhere.zip)", arg |-> <<>>] >>

\* the bytes of the help, which print_help hands to sys.stdout in one write:
\* every line with its newline, and the two empty lines HelpLines leaves out
RECURSIVE HelpBytesOf(_)
HelpBytesOf(lines) ==
    IF lines = <<>> THEN 0
    ELSE Len(Head(lines).text) + Len(Head(lines).arg) + 1 + HelpBytesOf(Tail(lines))
HelpBytes == HelpBytesOf(HelpLines) + 2

\* s.split("=", 1)
IndexOfEq(s) ==
    IF Contains(s, "=")
    THEN CHOOSE i \in 1..Len(s) : s[i] = "=" /\ \A j \in 1..(i - 1) : s[j] # "="
    ELSE 0
BeforeEq(s) == SubSeq(s, 1, IndexOfEq(s) - 1)
AfterEq(s) == SubSeq(s, IndexOfEq(s) + 1, Len(s))

NoExplicit == [given |-> FALSE, val |-> <<>>]
Explicit(v) == [given |-> TRUE, val |-> v]
OptionTuple(option_string, explicit_arg) ==
    [action |-> ActionOf(option_string), option_string |-> option_string,
     explicit |-> explicit_arg]
NoTuple == [action |-> "none", option_string |-> <<>>, explicit |-> NoExplicit]

IsOption(s) == \E i \in 1..Len(OptionStrings) : OptionStrings[i] = s

\* _negative_number_matcher, '^-\d+$|^-\d*\.\d+$'; "$" also matches before a
\* final newline
AllDigits(s) == \A i \in 1..Len(s) : s[i] \in {"0", "1", "2", "3", "4", "5", "6", "7", "8", "9"}

NegativeNumberLike(tok) ==
    LET t == IF tok # <<>> /\ tok[Len(tok)] = "\n" THEN SubSeq(tok, 1, Len(tok) - 1) ELSE tok
    IN /\ t # <<>>
       /\ t[1] = "-"
       /\ \/ Len(t) > 1 /\ AllDigits(Tail(t))
          \/ \E d \in 2..(Len(t) - 1) :
                /\ t[d] = "."
                /\ AllDigits(SubSeq(t, 2, d - 1))
                /\ AllDigits(SubSeq(t, d + 1, Len(t)))

\* _get_option_tuples: the registered options an argument of two or more
\* characters that starts with "-" can stand for
get_option_tuples(tok) ==
    IF tok[2] = "-"
    THEN LET option_prefix == IF Contains(tok, "=") THEN BeforeEq(tok) ELSE tok
             explicit_arg == IF Contains(tok, "=") THEN Explicit(AfterEq(tok)) ELSE NoExplicit
             matches == SelectSeq(OptionStrings, LAMBDA o : StartsWith(o, option_prefix))
         IN [i \in 1..Len(matches) |-> OptionTuple(matches[i], explicit_arg)]
    ELSE LET short_option_prefix == SubSeq(tok, 1, 2)
             short_explicit_arg == SubSeq(tok, 3, Len(tok))
             matches == SelectSeq(OptionStrings,
                                  LAMBDA o : o = short_option_prefix \/ StartsWith(o, tok))
         IN [i \in 1..Len(matches) |->
                IF matches[i] = short_option_prefix
                THEN OptionTuple(matches[i], Explicit(short_explicit_arg))
                ELSE OptionTuple(matches[i], NoExplicit)]

\* _parse_optional: "A" for a plain argument, "O" with its option tuple for an
\* option (action "none" when no registered option matches), "ambiguous" when
\* several do
parse_optional(tok) ==
    IF tok = <<>> THEN [kind |-> "A", tuple |-> NoTuple]
    ELSE IF tok[1] # "-" THEN [kind |-> "A", tuple |-> NoTuple]
    ELSE IF IsOption(tok) THEN [kind |-> "O", tuple |-> OptionTuple(tok, NoExplicit)]
    ELSE IF Len(tok) = 1 THEN [kind |-> "A", tuple |-> NoTuple]
    ELSE IF Contains(tok, "=") /\ IsOption(BeforeEq(tok))
    THEN [kind |-> "O", tuple |-> OptionTuple(BeforeEq(tok), Explicit(AfterEq(tok)))]
    ELSE LET option_tuples == get_option_tuples(tok)
         IN IF Len(option_tuples) > 1 THEN [kind |-> "ambiguous", tuple |-> NoTuple]
            ELSE IF Len(option_tuples) = 1 THEN [kind |-> "O", tuple |-> option_tuples[1]]
            ELSE IF NegativeNumberLike(tok) THEN [kind |-> "A", tuple |-> NoTuple]
            ELSE IF Contains(tok, " ") THEN [kind |-> "A", tuple |-> NoTuple]
            ELSE [kind |-> "O", tuple |-> [NoTuple EXCEPT !.option_string = tok]]

\* the pattern of the command line: every argument after the first "--" is "A"
TerminatorIndex(av) ==
    IF \E i \in 1..Len(av) : av[i] = TERMINATOR
    THEN CHOOSE i \in 1..Len(av) : av[i] = TERMINATOR /\ \A j \in 1..(i - 1) : av[j] # TERMINATOR
    ELSE Len(av) + 1

Classify(av) ==
    [i \in 1..Len(av) |->
        IF i < TerminatorIndex(av) THEN parse_optional(av[i])
        ELSE IF i = TerminatorIndex(av) THEN [kind |-> "-", tuple |-> NoTuple]
        ELSE [kind |-> "A", tuple |-> NoTuple]]

Parsed(ns) == [kind |-> "ok", ns |-> ns, code |-> -1, lines |-> <<>>]
ArgparseExit(code, lines) ==
    [kind |-> "exit", ns |-> [file |-> <<>>, object_key |-> <<>>], code |-> code, lines |-> lines]
ArgparseError(text, arg) ==
    ArgparseExit(2, <<UsageLine, [text |-> text, arg |-> arg]>>)

SetValue(ns, action, v) ==
    IF action = "file" THEN [ns EXCEPT !.file = v] ELSE [ns EXCEPT !.object_key = v]

\* consume_optional for -h/--help carrying an explicit argument: "-hh" is -h -h,
\* anything else is refused
RECURSIVE HelpExplicit(_, _)
HelpExplicit(option_string, explicit_arg) ==
    IF option_string[2] # "-" /\ explicit_arg # <<>> /\ <<"-", explicit_arg[1]>> = OPT_H
    THEN IF Len(explicit_arg) = 1
         THEN ArgparseExit(0, HelpLines)
         ELSE HelpExplicit(OPT_H, Tail(explicit_arg))
    ELSE ArgparseError("upload.py: error: argument -h/--help: ignored explicit argument ",
                       Repr(explicit_arg))

\* the loop of _parse_known_args from argument i on, then parse_args' report of
\* what was not recognized
RECURSIVE ParseFrom(_, _, _, _, _)
ParseFrom(av, cls, i, ns, extras) ==
    IF \A j \in i..Len(av) : cls[j].kind # "O"
    THEN LET unrecognized == extras \o SubSeq(av, i, Len(av))
         IN IF unrecognized = <<>> THEN Parsed(ns)
            ELSE ArgparseError("upload.py: error: unrecognized arguments: ",
                               Flatten(Join(<<" ">>, unrecognized)))
    ELSE IF cls[i].kind # "O" THEN ParseFrom(av, cls, i + 1, ns, Append(extras, av[i]))
    ELSE LET t == cls[i].tuple
         IN IF t.action = "none" THEN ParseFrom(av, cls, i + 1, ns, Append(extras, av[i]))
            ELSE IF t.action = "help"
            THEN IF t.explicit.given
                 THEN HelpExplicit(t.option_string, t.explicit.val)
                 ELSE ArgparseExit(0, HelpLines)
            ELSE IF t.explicit.given
            THEN ParseFrom(av, cls, i + 1,
                           SetValue(ns, t.action,
                                    IF t.explicit.val = TERMINATOR THEN EMPTY_LIST
                                    ELSE t.explicit.val),
                           extras)
            ELSE IF i + 1 <= Len(av) /\ cls[i + 1].kind = "A"
            THEN ParseFrom(av, cls, i + 2, SetValue(ns, t.action, av[i + 1]), extras)
            ELSE ArgparseError("upload.py: error: argument " \o ActionName(t.action)
                                   \o ": expected one argument", <<>>)

parse_args(av) ==
    LET cls == Classify(av)
        ambiguous == {i \in 1..Len(av) : cls[i].kind = "ambiguous"}
    IN IF ambiguous # {}
       THEN LET i == CHOOSE k \in ambiguous : \A j \in ambiguous : k <= j
                option_tuples == get_option_tuples(av[i])
                matches == [j \in 1..Len(option_tuples) |-> option_tuples[j].option_string]
            IN ArgparseError("upload.py: error: ambiguous option: ",
                             av[i] \o <<" could match ">>
                                 \o Flatten(Join(<<",", " ">>, matches)))
       ELSE ParseFrom(av, cls, 1,
                      [file |-> DEFAULT_ZIP_PATH, object_key |-> DEFAULT_OBJECT_KEY], <<>>)

(***************************************************************************)
(* The process environment.                                                *)
(***************************************************************************)
EnvNames == {"FINE_OSS_ENDPOINT", "FINE_OSS_BUCKET", "FINE_OSS_ACCESS_KEY_ID",
             "FINE_OSS_ID", "FINE_OSS_ACCESS_KEY_SECRET", "FINE_OSS_SECRET",
             "FINE_OSS_SECURITY_TOKEN"}

Unset == [set |-> FALSE, val |-> <<>>]
SetTo(v) == [set |-> TRUE, val |-> v]

(***************************************************************************)
(* The file system the process runs on, as Path.is_file() (upload.py:80)   *)
(* sees it through os.stat.  The working directory holds the regular file  *)
(* "a", the directory "dist", which holds the default zip, the directory   *)
(* "locked", which the process is not allowed to search, and the symbolic  *)
(* link "loop", which points to itself; no other name exists, there or     *)
(* elsewhere.  A path is walked component by component and the first       *)
(* component that fails decides the error.                                 *)
(***************************************************************************)
NAME_MAX == 255      \* bytes of one path component
PATH_MAX == 4096     \* bytes of a whole path, its final NUL included

ZipDir == SubSeq(DEFAULT_ZIP_PATH, 1, 4)
ZipName == SubSeq(DEFAULT_ZIP_PATH, 6, Len(DEFAULT_ZIP_PATH))
LOCKED_DIR == <<"l", "o", "c", "k", "e", "d">>

\* the errors os.stat ends a path walk with
StatErrors == {"ENOENT", "ENOTDIR", "ENAMETOOLONG", "EACCES", "ELOOP"}

\* pathlib._IGNORED_ERRNOS: the errors for which Path.is_file() answers False
IgnoredErrors == {"ENOENT", "ENOTDIR", "EBADF", "ELOOP"}

\* os.strerror, as str(OSError) writes it before the file name
StrError ==
    [e \in StatErrors \ IgnoredErrors |->
        IF e = "ENAMETOOLONG" THEN "[Errno 36] File name too long: "
        ELSE "[Errno 13] Permission denied: "]

Child(dir, name) ==
    IF dir = "locked" THEN "EACCES"
    ELSE IF name = <<".", ".">> THEN IF dir = "dist" THEN "cwd" ELSE "elsewhere"
    ELSE IF Utf8Len(name) > NAME_MAX THEN "ENAMETOOLONG"
    ELSE IF dir = "cwd" /\ name = <<"a">> THEN "file"
    ELSE IF dir = "cwd" /\ name = ZipDir THEN "dist"
    ELSE IF dir = "cwd" /\ name = LOCKED_DIR THEN "locked"
    ELSE IF dir = "cwd" /\ name = <<"l", "o", "o", "p">> THEN "ELOOP"
    ELSE IF dir = "dist" /\ name = ZipName THEN "file"
    ELSE "ENOENT"

RECURSIVE Walk(_, _)
Walk(node, parts) ==
    IF node \in StatErrors \/ parts = <<>> THEN node
    ELSE IF node = "file" THEN "ENOTDIR"
    ELSE Walk(Child(node, Head(parts)), Tail(parts))

\* os.stat(path): "file", a directory ("cwd", "dist", "locked", "elsewhere") or
\* the error
Stat(path) ==
    IF Utf8Len(path) >= PATH_MAX THEN "ENAMETOOLONG"
    ELSE Walk(IF PathRoot(path) = <<>> THEN "cwd" ELSE "elsewhere", PathParts(path))

\* Path.is_file(), upload.py:80: False for the ignored errors, any other OSError
\* is raised
is_file(path) ==
    [raised |-> Stat(path) \in StatErrors \ IgnoredErrors, value |-> Stat(path) = "file"]

\* mutant: the upper bound of the range off by one
StatusOk_Inclusive(status) == ~(status < 200 \/ status > 300)

\* upload.py:72
StatusOk(status) == ~(status < 200 \/ status >= 300)

\* what bucket.put_object_from_file can do: return a result, or raise
PutOutcomes ==
    {[raised |-> FALSE, status |-> s] : s \in {199, 200, 204, 299, 300, 403}}
    \cup {[raised |-> TRUE, status |-> -1]}

\* what "import oss2" can do: succeed, fail because the package (or one it needs)
\* is missing, or raise something else
ImportOutcomes == {"installed", "missing", "broken"}

\* whatever exception a call into the SDK raises
SdkError == [text |-> "<exception raised by oss2>", arg |-> <<>>]

(***************************************************************************)
(* sys.stdout and sys.stderr.  "utf8" is a pipe or a file that takes every *)
(* line; "ascii" is the same with PYTHONIOENCODING=ascii, where sys.stdout *)
(* raises on a character outside ASCII and sys.stderr writes such a        *)
(* character as an escape; "nospace" is sys.stdout on a full device,       *)
(* unbuffered (python -u), where every write raises; "nospace_buffered" is *)
(* the same device behind the usual two buffers, where a write raises only *)
(* when a buffer has to be written out.  In the last two modes sys.stderr  *)
(* is a pipe and the encoding is UTF-8.                                    *)
(***************************************************************************)
StdoutModes == {"utf8", "ascii", "nospace", "nospace_buffered"}

CHUNK_SIZE == 8192     \* what the TextIOWrapper holds back before it writes on
BUFFER_SIZE == 4096    \* the buffer of the BufferedWriter: st_blksize of the device

ENOSPC == [text |-> "[Errno 28] No space left on device", arg |-> <<>>]

\* the four Chinese characters of the label of upload.py:95 and the ": " after
\* them, which a string here cannot hold: 6 characters, 14 bytes of UTF-8
LOCALIZED_LABEL == "XiaZaiDiZhi: "
TextChars(text) == IF text = LOCALIZED_LABEL THEN 6 ELSE Len(text)
TextBytes(text) == IF text = LOCALIZED_LABEL THEN 14 ELSE Len(text)
LineBytes(line) == TextBytes(line.text) + Utf8Len(line.arg)

\* the first run of characters of the line that ASCII cannot encode, as 0-based
\* positions in the line; <<>> when there is none
NonAsciiRun(line) ==
    IF line.text = LOCALIZED_LABEL THEN <<0, 3>>
    ELSE IF \A i \in 1..Len(line.arg) : line.arg[i] \notin NonAscii THEN <<>>
    ELSE LET first == CHOOSE i \in 1..Len(line.arg) :
                         /\ line.arg[i] \in NonAscii
                         /\ \A j \in 1..(i - 1) : line.arg[j] \notin NonAscii
             last == CHOOSE i \in first..Len(line.arg) :
                         /\ \A j \in first..i : line.arg[j] \in NonAscii
                         /\ i = Len(line.arg) \/ line.arg[i + 1] \notin NonAscii
         IN <<TextChars(line.text) + first - 1, TextChars(line.text) + last - 1>>

\* str(UnicodeEncodeError) of the ascii codec for that run
UnicodeEncodeError(line) ==
    LET run == NonAsciiRun(line)
        c == line.arg[run[1] - TextChars(line.text) + 1]
        ordinal == <<":", " ", "o", "r", "d", "i", "n", "a", "l", " ", "n", "o", "t", " ",
                     "i", "n", " ", "r", "a", "n", "g", "e", "(", "1", "2", "8", ")">>
    IN IF run[1] = run[2]
       THEN [text |-> "'ascii' codec can't encode character ",
             arg |-> <<"'">> \o HexEscape(c)
                     \o <<"'", " ", "i", "n", " ", "p", "o", "s", "i", "t", "i", "o", "n", " ">>
                     \o Digits(run[1]) \o ordinal]
       ELSE [text |-> "'ascii' codec can't encode characters in position ",
             arg |-> Digits(run[1]) \o <<"-">> \o Digits(run[2]) \o ordinal]

\* errors="backslashreplace", the error handler of sys.stderr
BackslashReplace(s) ==
    Flatten([i \in 1..Len(s) |->
                IF s[i] \in NonAscii THEN HexEscape(s[i]) ELSE <<s[i]>>])

\* a line as sys.stderr writes it
StderrLine(mode, line) ==
    IF mode = "ascii" THEN [text |-> line.text, arg |-> BackslashReplace(line.arg)] ELSE line
StderrLines(mode, lines) == [i \in 1..Len(lines) |-> StderrLine(mode, lines[i])]

\* BufferedWriter.write of n bytes on the full device: they are taken when they
\* fit in what is left of the buffer, otherwise the buffer has to be written
\* out, which the device refuses
BufferedWrite(buffered, n) ==
    IF n <= BUFFER_SIZE - buffered
    THEN [raised |-> FALSE, buffered |-> buffered + n]
    ELSE [raised |-> TRUE, buffered |-> buffered]

\* TextIOWrapper.write of n bytes on the full device: what is held back is
\* handed on first when the new bytes would take it over the chunk size, and
\* again once it has reached the chunk size; handing on forgets what was held
\* back, whether the buffer takes it or not
TextWrite(io, n) ==
    LET over == io.pending > 0 /\ io.pending + n > CHUNK_SIZE
        first == IF over THEN BufferedWrite(io.buffered, io.pending)
                 ELSE [raised |-> FALSE, buffered |-> io.buffered]
        held == IF over THEN n ELSE io.pending + n
        second == BufferedWrite(first.buffered, held)
    IN IF first.raised THEN [raised |-> TRUE, pending |-> 0, buffered |-> first.buffered]
       ELSE IF held >= CHUNK_SIZE
       THEN [raised |-> second.raised, pending |-> 0, buffered |-> second.buffered]
       ELSE [raised |-> FALSE, pending |-> held, buffered |-> first.buffered]

\* sys.stdout.write of n bytes of text the encoding can hold
Write(mode, io, n) ==
    IF mode = "nospace" THEN [raised |-> TRUE, pending |-> io.pending, buffered |-> io.buffered]
    ELSE IF mode = "nospace_buffered" THEN TextWrite(io, n)
    ELSE [raised |-> FALSE, pending |-> io.pending, buffered |-> io.buffered]

\* print(line) on sys.stdout: the text is written, then the newline
PrintOutcome(mode, io, line) ==
    IF mode = "ascii" /\ NonAsciiRun(line) # <<>>
    THEN [raised |-> TRUE, error |-> UnicodeEncodeError(line),
          pending |-> io.pending, buffered |-> io.buffered]
    ELSE LET text == Write(mode, io, LineBytes(line))
             end == Write(mode, text, 1)
         IN IF text.raised
            THEN [raised |-> TRUE, error |-> ENOSPC,
                  pending |-> text.pending, buffered |-> text.buffered]
            ELSE [raised |-> end.raised, error |-> IF end.raised THEN ENOSPC ELSE [text |-> "", arg |-> <<>>],
                  pending |-> end.pending, buffered |-> end.buffered]

\* sys.stdout.flush() on the full device: what is held back goes to the buffer
\* if it fits and is lost if not, and the flush fails when bytes are left in
\* the buffer
Flush(io) ==
    LET handed == IF io.pending > 0 THEN BufferedWrite(io.buffered, io.pending)
                  ELSE [raised |-> FALSE, buffered |-> io.buffered]
    IN [raised |-> handed.raised \/ handed.buffered > 0, pending |-> 0,
        buffered |-> handed.buffered]

\* what the interpreter writes to sys.stderr when it cannot flush sys.stdout
FlushFailedLines ==
    << [text |-> "Exception ignored in: <_io.TextIOWrapper name='<stdout>' mode='w' encoding='utf-8'>",
        arg |-> <<>>],
       [text |-> "OSError: [Errno 28] No space left on device", arg |-> <<>>] >>

NoText == [text |-> "", arg |-> <<>>]
NoArgs == [file |-> <<>>, object_key |-> <<>>]
NoCall == [fn |-> "none", name |-> "", aliases |-> <<>>, raw |-> <<>>, bucket |-> <<>>, key |-> <<>>]
Pending == [state |-> "pending", value |-> <<>>, error |-> NoText]
Returned(v) == [state |-> "returned", value |-> v, error |-> NoText]
Raised(e) == [state |-> "raised", value |-> <<>>, error |-> e]

(***************************************************************************)
(* Inputs of a run.                                                        *)
(***************************************************************************)
PathArgs == Strings({"/", ".", "a"}, MaxPathLen)
KeyArgs == Strings({"/", "a", " "}, MaxKeyLen) \cup {<<"/", "a", "/", "/", "b", "/">>}

\* a file name one character longer than the file system takes
LongName == [i \in 1..(NAME_MAX + 1) |-> "a"]

\* characters outside the printable ASCII
VERTICAL_TAB == Chr(11)
ESCAPE == Chr(27)
UNIT_SEPARATOR == Chr(31)
DELETE == Chr(127)
NEXT_LINE == Chr(133)
NO_BREAK_SPACE == Chr(160)
E_ACUTE == Chr(233)

\* a file name of fewer characters than NAME_MAX and more bytes
LongAccentedName == [i \in 1..(NAME_MAX \div 2 + 1) |-> E_ACUTE]

\* a path of more than PATH_MAX bytes whose components the file system takes
LongPath ==
    [i \in 1..((PATH_MAX \div (NAME_MAX + 1) + 1) * (NAME_MAX + 1) - 1) |->
        IF i % (NAME_MAX + 1) = 0 THEN "/" ELSE "a"]

ArgvInputs ==
    {<<>>}
    \cup {<<OPT_FILE, f>> : f \in PathArgs}
    \cup {<<OPT_OBJECT_KEY, k>> : k \in KeyArgs}
    \cup {<<OPT_FILE, f, OPT_OBJECT_KEY, k>> : f \in {<<"a">>, <<"b">>}, k \in KeyArgs}
    \cup { <<OPT_HELP>>, <<OPT_H>>, <<OPT_BOGUS>>, <<OPT_FILE>>, <<OPT_OBJECT_KEY>>,
           <<OPT_FILE, OPT_HELP>>, <<OPT_BOGUS, OPT_HELP>>, <<<<"a">>>>,
           <<OPT_FILE, <<"a">>, OPT_OBJECT_KEY>>,
           <<OPT_FILE, <<"b">>, OPT_FILE, <<"a">>>>,
           <<OPT_FILE, <<"a">>, <<"a">>>> }
    \cup { <<OPT_FILE \o <<"=", "a">>>>,                                  \* --file=a
           <<SubSeq(OPT_FILE, 1, 4), <<"a">>,
             SubSeq(OPT_OBJECT_KEY, 1, 3) \o <<"=", "k">>>>,              \* --fi a --o=k
           <<SubSeq(OPT_HELP, 1, 3)>>,                                    \* --h
           <<OPT_H \o <<"h">>>>,                                          \* -hh
           <<OPT_H \o <<"x">>>>,                                          \* -hx
           <<OPT_HELP \o <<"=", "x">>>>,                                  \* --help=x
           <<OPT_HELP, <<"-", "-", "=", "x">>>>,                          \* --help --=x
           <<OPT_FILE, <<"-", "1">>>>,                                    \* --file -1
           <<TERMINATOR, OPT_HELP, <<"b">>>>,                             \* -- --help b
           <<OPT_FILE, <<"a">>, TERMINATOR, OPT_OBJECT_KEY, <<"k">>>>,
           <<OPT_FILE \o <<"=">> \o TERMINATOR>>,                         \* --file=--
           <<OPT_FILE, <<"a">>, OPT_OBJECT_KEY \o <<"=">> \o TERMINATOR>>,
           <<OPT_FILE, <<"a">>, OPT_OBJECT_KEY, <<"\f", "/", "k", "/", "\f">>>>,
           <<OPT_FILE, LongName>> }
    \cup { <<OPT_FILE, LOCKED_DIR>>,
           <<OPT_FILE, LOCKED_DIR \o <<"/", "a">>>>,
           <<OPT_FILE, LOCKED_DIR \o <<"/">> \o LongName>>,
           <<OPT_FILE, <<"l", "o", "o", "p">>>>,
           <<OPT_FILE, LongPath>>,
           <<OPT_FILE, <<OGHAM_SPACE_MARK, "a", OGHAM_SPACE_MARK>>>>,
           <<OPT_FILE, <<"a">>, OPT_OBJECT_KEY, <<"k", OGHAM_SPACE_MARK>>>> }
    \cup { <<OPT_FILE, <<E_ACUTE>>>>,
           <<OPT_FILE, <<"b", E_ACUTE, DELETE, E_ACUTE, NO_BREAK_SPACE>>>>,
           <<OPT_FILE, LongAccentedName>>,
           <<OPT_H \o <<VERTICAL_TAB>>>>,
           <<<<ESCAPE, E_ACUTE>>>>,
           <<OPT_FILE, <<"a">>, OPT_OBJECT_KEY, <<VERTICAL_TAB, "/", DELETE, "k", E_ACUTE>>>> }

EndpointEnv ==
    { Unset, SetTo(<<" ", "\f", VERTICAL_TAB, NEXT_LINE, OGHAM_SPACE_MARK>>),
      SetTo(<<"e">>),
      SetTo(<<" ">> \o HTTP \o <<"e", "/", "\n">>) }
BucketEnv == {Unset, SetTo(<<" ">>), SetTo(<<" ", "b", " ">>)}
KeyIdEnv == {Unset, SetTo(<<"\t", UNIT_SEPARATOR>>), SetTo(<<" ", "i", " ">>)}
KeyIdAliasEnv == {Unset, SetTo(<<"j">>)}
SecretEnv == {SetTo(<<>>), SetTo(<<"s">>)}
SecretAliasEnv == {SetTo(<<" ">>), SetTo(<<"t", " ">>)}
TokenEnv == {Unset, SetTo(<<" ">>), SetTo(<<"k">>)}

MainIdle ==
    /\ args = NoArgs
    /\ local_file = <<>>
    /\ endpoint = <<>>
    /\ bucket_name = <<>>
    /\ object_key = <<>>
    /\ imported = FALSE
    /\ lookups = <<>>
    /\ access_key_id = <<>>
    /\ access_key_secret = <<>>
    /\ security_token = <<>>
    /\ auth = "none"
    /\ puts = <<>>
    /\ result = -1
    /\ download_url = <<>>
    /\ error = NoText
    /\ pending_bytes = 0
    /\ buffered_bytes = 0
    /\ stdout = <<>>
    /\ stderr = <<>>
    /\ ret = -1
    /\ sysexit = -1
    /\ exit_code = -1

Environ(e, b, i, ia, s, sa, t) ==
    [n \in EnvNames |->
        CASE n = "FINE_OSS_ENDPOINT" -> e
          [] n = "FINE_OSS_BUCKET" -> b
          [] n = "FINE_OSS_ACCESS_KEY_ID" -> i
          [] n = "FINE_OSS_ID" -> ia
          [] n = "FINE_OSS_ACCESS_KEY_SECRET" -> s
          [] n = "FINE_OSS_SECRET" -> sa
          [] OTHER -> t]

Environments ==
    { Environ(e, b, i, ia, s, sa, t) :
        e \in EndpointEnv, b \in BucketEnv, i \in KeyIdEnv, ia \in KeyIdAliasEnv,
        s \in SecretEnv, sa \in SecretAliasEnv, t \in TokenEnv }

\* environments in which every required variable resolves
CompleteEnvironments ==
    { Environ(e, SetTo(<<" ", "b", " ">>), SetTo(<<" ", "i", " ">>), Unset,
              SetTo(<<"s">>), SetTo(<<"t", " ">>), t) :
        e \in {SetTo(<<"e">>), SetTo(<<" ">> \o HTTP \o <<"e", "/", "\n">>)},
        t \in {Unset, SetTo(<<"k">>)} }

\* command lines that pass the file check, with the default key and with a key
\* that strips on both sides
PassingArgv ==
    { <<>>, <<OPT_FILE, <<"a">>, OPT_OBJECT_KEY, <<"/", "a", "/", "/", "b", "/">>>> }

\* bucket names long enough to fill the buffers of sys.stdout, and bucket names
\* and an endpoint with characters outside ASCII
LongBuckets == {[i \in 1..n |-> "b"] : n \in {1300, 3000, 9000}}
AccentedBuckets == {<<E_ACUTE>>, <<"b", E_ACUTE, E_ACUTE, "b", NEXT_LINE>>}
OutputEnvironments ==
    { Environ(SetTo(<<"e">>), SetTo(b), SetTo(<<" ", "i", " ">>), Unset,
              SetTo(<<"s">>), SetTo(<<"t", " ">>), Unset) :
        b \in LongBuckets \cup AccentedBuckets }
    \cup { Environ(SetTo(<<NO_BREAK_SPACE, "e", E_ACUTE, UNIT_SEPARATOR>>), Unset,
                   SetTo(<<" ", "i", " ">>), Unset, SetTo(<<"s">>), SetTo(<<"t", " ">>), Unset) }

\* every command line runs in the complete environments, the passing command
\* lines run in every environment, and sys.stdout is any of its modes
Init ==
    /\ pc = "parse_args"
    /\ \/ argv \in ArgvInputs /\ environ \in CompleteEnvironments
       \/ argv \in PassingArgv /\ environ \in Environments
       \/ argv = <<>> /\ environ \in OutputEnvironments
    /\ stdout_mode \in StdoutModes
    /\ MainIdle
    /\ call = NoCall
    /\ out = Pending

\* an exception raised inside main's try block
Raise(msg) ==
    /\ error' = msg
    /\ pc' = "except"

(***************************************************************************)
(* main, upload.py:76-99, one action per statement.                        *)
(***************************************************************************)
\* upload.py:78.  SystemExit is no Exception: it passes the handler of main.  The
\* help is written to sys.stdout in one write, and argparse ignores an OSError
\* of that write.
ParseArgs ==
    /\ pc = "parse_args"
    /\ LET r == parse_args(argv)
           w == Write(stdout_mode, [pending |-> pending_bytes, buffered |-> buffered_bytes],
                      HelpBytes)
       IN IF r.kind = "ok"
          THEN /\ args' = r.ns
               /\ pc' = "is_file"
               /\ UNCHANGED <<pending_bytes, buffered_bytes, stdout, stderr, sysexit>>
          ELSE /\ IF r.code = 0
                  THEN /\ pending_bytes' = w.pending
                       /\ buffered_bytes' = w.buffered
                       /\ stdout' = IF w.raised THEN stdout ELSE stdout \o r.lines
                       /\ UNCHANGED stderr
                  ELSE /\ stderr' = stderr \o StderrLines(stdout_mode, r.lines)
                       /\ UNCHANGED <<pending_bytes, buffered_bytes, stdout>>
               /\ sysexit' = r.code
               /\ pc' = "shutdown"
               /\ UNCHANGED args
    /\ UNCHANGED <<argv, environ, local_file, endpoint, bucket_name, object_key, imported,
                   lookups, access_key_id, access_key_secret, security_token, auth, puts,
                   result, download_url, error, stdout_mode, ret, exit_code, call, out>>

\* upload.py:79-81
CheckFile ==
    /\ pc = "is_file"
    /\ IF args.file = EMPTY_LIST
       THEN /\ Raise([text |-> "expected str, bytes or os.PathLike object, not list",
                      arg |-> <<>>])
            /\ UNCHANGED local_file
       ELSE /\ local_file' = PathStr(args.file)
            /\ IF is_file(PathStr(args.file)).raised
               THEN Raise([text |-> StrError[Stat(PathStr(args.file))],
                           arg |-> Repr(PathStr(args.file))])
               ELSE IF is_file(PathStr(args.file)).value
               THEN pc' = "endpoint" /\ UNCHANGED error
               ELSE Raise([text |-> "File not found: ", arg |-> PathStr(args.file)])
    /\ UNCHANGED <<argv, environ, args, endpoint, bucket_name, object_key, imported,
                   lookups, access_key_id, access_key_secret, security_token, auth, puts,
                   result, download_url, stdout_mode, pending_bytes, buffered_bytes, stdout,
                   stderr, ret, sysexit, exit_code, call, out>>

\* upload.py:83
ResolveEndpoint ==
    /\ pc = "endpoint"
    /\ LET r == require_env(environ, "FINE_OSS_ENDPOINT", <<>>)
       IN /\ lookups' = lookups \o r.read
          /\ IF r.ok
             THEN /\ endpoint' = normalize_endpoint(r.value)
                  /\ pc' = "bucket"
                  /\ UNCHANGED error
             ELSE Raise(r.value) /\ UNCHANGED endpoint
    /\ UNCHANGED <<argv, environ, args, local_file, bucket_name, object_key, imported,
                   access_key_id, access_key_secret, security_token, auth, puts, result,
                   download_url, stdout_mode, pending_bytes, buffered_bytes, stdout, stderr,
                   ret, sysexit, exit_code, call, out>>

\* upload.py:84
ResolveBucket ==
    /\ pc = "bucket"
    /\ lookups' = Append(lookups, "FINE_OSS_BUCKET")
    /\ LET b == Strip(getenv(environ, "FINE_OSS_BUCKET", DEFAULT_BUCKET))
       IN bucket_name' = IF b # <<>> THEN b ELSE DEFAULT_BUCKET
    /\ pc' = "object_key"
    /\ UNCHANGED <<argv, environ, args, local_file, endpoint, object_key, imported,
                   access_key_id, access_key_secret, security_token, auth, puts, result,
                   download_url, error, stdout_mode, pending_bytes, buffered_bytes, stdout,
                   stderr, ret, sysexit, exit_code, call, out>>

\* upload.py:85-87
NormalizeKey ==
    /\ pc = "object_key"
    /\ IF args.object_key = EMPTY_LIST
       THEN /\ Raise([text |-> "'list' object has no attribute 'strip'", arg |-> <<>>])
            /\ UNCHANGED object_key
       ELSE /\ object_key' = StripChars(args.object_key, {"/"})
            /\ IF StripChars(args.object_key, {"/"}) # <<>>
               THEN pc' = "import" /\ UNCHANGED error
               ELSE Raise([text |-> "object key must not be empty", arg |-> <<>>])
    /\ UNCHANGED <<argv, environ, args, local_file, endpoint, bucket_name, imported,
                   lookups, access_key_id, access_key_secret, security_token, auth, puts,
                   result, download_url, stdout_mode, pending_bytes, buffered_bytes, stdout,
                   stderr, ret, sysexit, exit_code, call, out>>

(***************************************************************************)
(* upload_with_oss2, upload.py:56-73, called at upload.py:89.              *)
(***************************************************************************)
\* upload.py:57-60
ImportOss2 ==
    /\ pc = "import"
    /\ \E outcome \in ImportOutcomes :
          IF outcome = "installed"
          THEN imported' = TRUE /\ pc' = "access_key_id" /\ UNCHANGED error
          ELSE IF outcome = "missing"
          THEN /\ Raise([text |-> "Python package 'oss2' not installed, run: pip3 install oss2",
                         arg |-> <<>>])
               /\ UNCHANGED imported
          ELSE Raise(SdkError) /\ UNCHANGED imported
    /\ UNCHANGED <<argv, environ, args, local_file, endpoint, bucket_name, object_key,
                   lookups, access_key_id, access_key_secret, security_token, auth, puts,
                   result, download_url, stdout_mode, pending_bytes, buffered_bytes, stdout,
                   stderr, ret, sysexit, exit_code, call, out>>

\* upload.py:62
ResolveAccessKeyId ==
    /\ pc = "access_key_id"
    /\ LET r == require_env(environ, "FINE_OSS_ACCESS_KEY_ID", <<"FINE_OSS_ID">>)
       IN /\ lookups' = lookups \o r.read
          /\ IF r.ok
             THEN access_key_id' = r.value /\ pc' = "access_key_secret" /\ UNCHANGED error
             ELSE Raise(r.value) /\ UNCHANGED access_key_id
    /\ UNCHANGED <<argv, environ, args, local_file, endpoint, bucket_name, object_key,
                   imported, access_key_secret, security_token, auth, puts, result,
                   download_url, stdout_mode, pending_bytes, buffered_bytes, stdout, stderr,
                   ret, sysexit, exit_code, call, out>>

\* upload.py:63
ResolveAccessKeySecret ==
    /\ pc = "access_key_secret"
    /\ LET r == require_env(environ, "FINE_OSS_ACCESS_KEY_SECRET", <<"FINE_OSS_SECRET">>)
       IN /\ lookups' = lookups \o r.read
          /\ IF r.ok
             THEN access_key_secret' = r.value /\ pc' = "security_token" /\ UNCHANGED error
             ELSE Raise(r.value) /\ UNCHANGED access_key_secret
    /\ UNCHANGED <<argv, environ, args, local_file, endpoint, bucket_name, object_key,
                   imported, access_key_id, security_token, auth, puts, result,
                   download_url, stdout_mode, pending_bytes, buffered_bytes, stdout, stderr,
                   ret, sysexit, exit_code, call, out>>

\* upload.py:64
ReadSecurityToken ==
    /\ pc = "security_token"
    /\ lookups' = Append(lookups, "FINE_OSS_SECURITY_TOKEN")
    /\ security_token' = Strip(getenv(environ, "FINE_OSS_SECURITY_TOKEN", <<>>))
    /\ pc' = "auth"
    /\ UNCHANGED <<argv, environ, args, local_file, endpoint, bucket_name, object_key,
                   imported, access_key_id, access_key_secret, auth, puts, result,
                   download_url, error, stdout_mode, pending_bytes, buffered_bytes, stdout,
                   stderr, ret, sysexit, exit_code, call, out>>

\* upload.py:66: oss2.Auth(access_key_id, access_key_secret) returns or raises
BuildAuth ==
    /\ pc = "auth"
    /\ \E raised \in BOOLEAN :
          IF raised
          THEN Raise(SdkError) /\ UNCHANGED auth
          ELSE auth' = "Auth" /\ pc' = "sts_auth" /\ UNCHANGED error
    /\ UNCHANGED <<argv, environ, args, local_file, endpoint, bucket_name, object_key,
                   imported, lookups, access_key_id, access_key_secret, security_token,
                   puts, result, download_url, stdout_mode, pending_bytes, buffered_bytes,
                   stdout, stderr, ret, sysexit, exit_code, call, out>>

\* upload.py:67-68: with a token, oss2.StsAuth(...) returns and replaces auth, or
\* raises and leaves it
BuildStsAuth ==
    /\ pc = "sts_auth"
    /\ IF security_token = <<>>
       THEN pc' = "make_bucket" /\ UNCHANGED <<auth, error>>
       ELSE \E raised \in BOOLEAN :
               IF raised
               THEN Raise(SdkError) /\ UNCHANGED auth
               ELSE auth' = "StsAuth" /\ pc' = "make_bucket" /\ UNCHANGED error
    /\ UNCHANGED <<argv, environ, args, local_file, endpoint, bucket_name, object_key,
                   imported, lookups, access_key_id, access_key_secret, security_token,
                   puts, result, download_url, stdout_mode, pending_bytes, buffered_bytes,
                   stdout, stderr, ret, sysexit, exit_code, call, out>>

\* upload.py:70: oss2.Bucket(auth, endpoint, bucket_name) returns or raises
MakeBucket ==
    /\ pc = "make_bucket"
    /\ \E raised \in BOOLEAN :
          IF raised THEN Raise(SdkError) ELSE pc' = "put" /\ UNCHANGED error
    /\ UNCHANGED <<argv, environ, args, local_file, endpoint, bucket_name, object_key,
                   imported, lookups, access_key_id, access_key_secret, security_token,
                   auth, puts, result, download_url, stdout_mode, pending_bytes,
                   buffered_bytes, stdout, stderr, ret, sysexit, exit_code, call, out>>

\* upload.py:71: the one blocking call of the SDK
PutObject ==
    /\ pc = "put"
    /\ puts' = Append(puts, [key |-> object_key, file |-> local_file,
                             endpoint |-> endpoint, bucket |-> bucket_name, auth |-> auth])
    /\ \E o \in PutOutcomes :
          IF o.raised
          THEN Raise(SdkError) /\ UNCHANGED result
          ELSE result' = o.status /\ pc' = "status" /\ UNCHANGED error
    /\ UNCHANGED <<argv, environ, args, local_file, endpoint, bucket_name, object_key,
                   imported, lookups, access_key_id, access_key_secret, security_token,
                   auth, download_url, stdout_mode, pending_bytes, buffered_bytes, stdout,
                   stderr, ret, sysexit, exit_code, call, out>>

\* mutant: a failed put is tried again
CheckStatus_Retry ==
    /\ pc = "status"
    /\ IF StatusOk(result)
       THEN pc' = "url" /\ UNCHANGED error
       ELSE IF Len(puts) < 2
       THEN pc' = "put" /\ UNCHANGED error
       ELSE Raise([text |-> "OSS upload failed, status=", arg |-> Digits(result)])
    /\ UNCHANGED <<argv, environ, args, local_file, endpoint, bucket_name, object_key,
                   imported, lookups, access_key_id, access_key_secret, security_token,
                   auth, puts, result, download_url, stdout_mode, pending_bytes,
                   buffered_bytes, stdout, stderr, ret, sysexit, exit_code, call, out>>

\* upload.py:72-73
CheckStatus ==
    /\ pc = "status"
    /\ IF StatusOk(result)
       THEN pc' = "url" /\ UNCHANGED error
       ELSE Raise([text |-> "OSS upload failed, status=", arg |-> Digits(result)])
    /\ UNCHANGED <<argv, environ, args, local_file, endpoint, bucket_name, object_key,
                   imported, lookups, access_key_id, access_key_secret, security_token,
                   auth, puts, result, download_url, stdout_mode, pending_bytes,
                   buffered_bytes, stdout, stderr, ret, sysexit, exit_code, call, out>>

\* upload.py:91
BuildUrl ==
    /\ pc = "url"
    /\ download_url' = build_public_url(endpoint, bucket_name, object_key)
    /\ pc' = "print_uploaded"
    /\ UNCHANGED <<argv, environ, args, local_file, endpoint, bucket_name, object_key,
                   imported, lookups, access_key_id, access_key_secret, security_token,
                   auth, puts, result, error, stdout_mode, pending_bytes, buffered_bytes,
                   stdout, stderr, ret, sysexit, exit_code, call, out>>

\* upload.py:92-95
SuccessLines ==
    << [text |-> "Uploaded: ", arg |-> local_file],
       [text |-> "OSS Path: oss://", arg |-> bucket_name \o <<"/">> \o object_key],
       [text |-> "URL: ", arg |-> download_url],
       [text |-> LOCALIZED_LABEL, arg |-> download_url] >>

\* one print of the success lines: line k is written and main goes on at next, or
\* the print raises inside the try block
PrintLine(k, next) ==
    /\ LET o == PrintOutcome(stdout_mode,
                             [pending |-> pending_bytes, buffered |-> buffered_bytes],
                             SuccessLines[k])
       IN /\ pending_bytes' = o.pending
          /\ buffered_bytes' = o.buffered
          /\ IF o.raised
             THEN Raise(o.error) /\ UNCHANGED stdout
             ELSE stdout' = Append(stdout, SuccessLines[k]) /\ pc' = next /\ UNCHANGED error
    /\ UNCHANGED <<argv, environ, args, local_file, endpoint, bucket_name, object_key,
                   imported, lookups, access_key_id, access_key_secret, security_token,
                   auth, puts, result, download_url, stdout_mode, stderr, ret, sysexit,
                   exit_code, call, out>>

\* upload.py:92
PrintUploaded == pc = "print_uploaded" /\ PrintLine(1, "print_oss_path")

\* upload.py:93
PrintOssPath == pc = "print_oss_path" /\ PrintLine(2, "print_url")

\* upload.py:94
PrintUrl == pc = "print_url" /\ PrintLine(3, "print_localized")

\* upload.py:95
PrintLocalizedUrl == pc = "print_localized" /\ PrintLine(4, "return")

\* upload.py:96
ReturnSuccess ==
    /\ pc = "return"
    /\ ret' = 0
    /\ pc' = "returned"
    /\ UNCHANGED <<argv, environ, args, local_file, endpoint, bucket_name, object_key,
                   imported, lookups, access_key_id, access_key_secret, security_token,
                   auth, puts, result, download_url, error, stdout_mode, pending_bytes,
                   buffered_bytes, stdout, stderr, sysexit, exit_code, call, out>>

\* upload.py:97-99
Except ==
    /\ pc = "except"
    /\ stderr' = Append(stderr, StderrLine(stdout_mode, [text |-> "upload failed: " \o error.text,
                                                         arg |-> error.arg]))
    /\ ret' = 1
    /\ pc' = "returned"
    /\ UNCHANGED <<argv, environ, args, local_file, endpoint, bucket_name, object_key,
                   imported, lookups, access_key_id, access_key_secret, security_token,
                   auth, puts, result, download_url, error, stdout_mode, pending_bytes,
                   buffered_bytes, stdout, sysexit, exit_code, call, out>>

\* upload.py:103: raise SystemExit(main())
Exit ==
    /\ pc = "returned"
    /\ sysexit' = ret
    /\ pc' = "shutdown"
    /\ UNCHANGED <<argv, environ, args, local_file, endpoint, bucket_name, object_key,
                   imported, lookups, access_key_id, access_key_secret, security_token,
                   auth, puts, result, download_url, error, stdout_mode, pending_bytes,
                   buffered_bytes, stdout, stderr, ret, exit_code, call, out>>

\* the interpreter ends on the SystemExit (upload.py:103 or the one argparse
\* raised).  It flushes sys.stdout twice: after the script, where a failure is
\* dropped, and when it shuts down, where a failure is reported on sys.stderr and
\* makes the exit status 120, whatever the status of the SystemExit was.  Nothing
\* reaches a full device.
Shutdown ==
    /\ pc = "shutdown"
    /\ LET after_run == Flush([pending |-> pending_bytes, buffered |-> buffered_bytes])
           at_exit == Flush(after_run)
       IN IF stdout_mode = "nospace_buffered"
          THEN /\ pending_bytes' = at_exit.pending
               /\ buffered_bytes' = at_exit.buffered
               /\ stdout' = <<>>
               /\ IF at_exit.raised
                  THEN stderr' = stderr \o FlushFailedLines /\ exit_code' = 120
                  ELSE exit_code' = sysexit /\ UNCHANGED stderr
          ELSE /\ exit_code' = sysexit
               /\ UNCHANGED <<pending_bytes, buffered_bytes, stdout, stderr>>
    /\ pc' = "exited"
    /\ UNCHANGED <<argv, environ, args, local_file, endpoint, bucket_name, object_key,
                   imported, lookups, access_key_id, access_key_secret, security_token,
                   auth, puts, result, download_url, error, stdout_mode, ret, sysexit, call,
                   out>>

Next ==
    \/ ParseArgs
    \/ CheckFile
    \/ ResolveEndpoint
    \/ ResolveBucket
    \/ NormalizeKey
    \/ ImportOss2
    \/ ResolveAccessKeyId
    \/ ResolveAccessKeySecret
    \/ ReadSecurityToken
    \/ BuildAuth
    \/ BuildStsAuth
    \/ MakeBucket
    \/ PutObject
    \/ CheckStatus
    \/ BuildUrl
    \/ PrintUploaded
    \/ PrintOssPath
    \/ PrintUrl
    \/ PrintLocalizedUrl
    \/ ReturnSuccess
    \/ Except
    \/ Exit
    \/ Shutdown

Spec == Init /\ [][Next]_vars

(***************************************************************************)
(* The helper functions called directly, on inputs drawn from bounded      *)
(* sets: require_env on every candidate list over three variables,         *)
(* normalize_endpoint and build_public_url on every endpoint made of at    *)
(* most MaxChunks pieces.                                                  *)
(***************************************************************************)
FnNames == {"FINE_OSS_ACCESS_KEY_ID", "FINE_OSS_ID", "FINE_OSS_ENDPOINT"}
FnEnvValues ==
    {Unset, SetTo(<<>>), SetTo(<<OGHAM_SPACE_MARK>>),
     SetTo(<<"\f", UNIT_SEPARATOR, NEXT_LINE>>), SetTo(<<"x">>), SetTo(<<"\t", "y", " ">>)}
EndpointPieces == {HTTPS, HTTP, <<"a">>, <<"/">>, <<" ">>}
RawEndpoints == {Flatten(c) : c \in Strings(EndpointPieces, MaxChunks)}

FnCalls ==
    {[NoCall EXCEPT !.fn = "require_env", !.name = n, !.aliases = a] :
        n \in FnNames, a \in Strings(FnNames, MaxAliases)}
    \cup {[NoCall EXCEPT !.fn = "normalize_endpoint", !.raw = r] : r \in RawEndpoints}
    \cup {[NoCall EXCEPT !.fn = "build_public_url", !.raw = r, !.bucket = <<"b">>, !.key = k] :
            r \in RawEndpoints, k \in Strings({"/", "a", " ", "%"}, MaxUrlKeyLen)}

InitFn ==
    /\ pc = "call"
    /\ argv = <<>>
    /\ call \in FnCalls
    /\ IF call.fn = "require_env"
       THEN environ \in {[n \in EnvNames |-> IF n \in FnNames THEN f[n] ELSE Unset] :
                            f \in [FnNames -> FnEnvValues]}
       ELSE environ = [n \in EnvNames |-> Unset]
    /\ stdout_mode = "utf8"
    /\ MainIdle
    /\ out = Pending

CallRequireEnv ==
    /\ pc = "call"
    /\ call.fn = "require_env"
    /\ LET r == require_env(environ, call.name, call.aliases)
       IN /\ lookups' = lookups \o r.read
          /\ out' = IF r.ok THEN Returned(r.value) ELSE Raised(r.value)
    /\ pc' = "called"
    /\ UNCHANGED <<argv, environ, args, local_file, endpoint, bucket_name, object_key,
                   imported, access_key_id, access_key_secret, security_token, auth, puts,
                   result, download_url, error, stdout_mode, pending_bytes, buffered_bytes,
                   stdout, stderr, ret, sysexit, exit_code, call>>

CallNormalizeEndpoint ==
    /\ pc = "call"
    /\ call.fn = "normalize_endpoint"
    /\ out' = Returned(normalize_endpoint(call.raw))
    /\ pc' = "called"
    /\ UNCHANGED <<argv, environ, args, local_file, endpoint, bucket_name, object_key,
                   imported, lookups, access_key_id, access_key_secret, security_token,
                   auth, puts, result, download_url, error, stdout_mode, pending_bytes,
                   buffered_bytes, stdout, stderr, ret, sysexit, exit_code, call>>

CallBuildPublicUrl ==
    /\ pc = "call"
    /\ call.fn = "build_public_url"
    /\ out' = Returned(build_public_url(call.raw, call.bucket, call.key))
    /\ pc' = "called"
    /\ UNCHANGED <<argv, environ, args, local_file, endpoint, bucket_name, object_key,
                   imported, lookups, access_key_id, access_key_secret, security_token,
                   auth, puts, result, download_url, error, stdout_mode, pending_bytes,
                   buffered_bytes, stdout, stderr, ret, sysexit, exit_code, call>>

NextFn ==
    \/ CallRequireEnv
    \/ CallNormalizeEndpoint
    \/ CallBuildPublicUrl

SpecFn == InitFn /\ [][NextFn]_vars

(***************************************************************************)
(* Vocabulary of the properties, stated on the inputs and the observable   *)
(* history rather than through the operators of the model.                 *)
(***************************************************************************)
Exited == pc = "exited"
\* s.endswith(p)
EndsWith(s, p) == Len(s) >= Len(p) /\ SubSeq(s, Len(s) - Len(p) + 1, Len(s)) = p

AsciiChars == {Chr(n) : n \in CodePoints \cap (1..127)}

\* percent-decoding of the codes quote produces
RECURSIVE unquote(_)
unquote(s) ==
    IF s = <<>> THEN <<>>
    ELSE IF /\ Head(s) = "%"
            /\ Len(s) >= 3
            /\ \E c \in AsciiChars : PercentCode(c) = SubSeq(s, 1, 3)
         THEN <<CHOOSE c \in AsciiChars : PercentCode(c) = SubSeq(s, 1, 3)>>
              \o unquote(SubSeq(s, 4, Len(s)))
         ELSE <<Head(s)>> \o unquote(Tail(s))

MainReturned == ret # -1
\* parse_args returned a namespace (it did not raise SystemExit)
ParsedOk ==
    /\ pc \notin {"parse_args", "call", "called"}
    /\ ~(pc \in {"shutdown", "exited"} /\ ret = -1)
NonBlank(v) == v.set /\ \E i \in 1..Len(v.val) : v.val[i] \notin Whitespace
\* t is s with only leading and trailing characters of chars removed
IsStripOf(t, s, chars) ==
    \E i \in 0..Len(s), j \in 0..Len(s) :
        /\ i + j <= Len(s)
        /\ t = SubSeq(s, i + 1, Len(s) - j)
        /\ \A k \in 1..i : s[k] \in chars
        /\ \A k \in (Len(s) - j + 1)..Len(s) : s[k] \in chars
        /\ t # <<>> => t[1] \notin chars /\ t[Len(t)] \notin chars
\* the --file value is a path that names no regular file
FileMissing == args.file # EMPTY_LIST /\ Stat(PathStr(args.file)) # "file"
Put2xx == Len(puts) = 1 /\ result >= 200 /\ result <= 299
MarkedTexts ==
    { "upload failed: File not found: ",
      "upload failed: [Errno 36] File name too long: ",
      "upload failed: [Errno 13] Permission denied: ",
      "upload failed: expected str, bytes or os.PathLike object, not list",
      "upload failed: Missing required env var: ",
      "upload failed: object key must not be empty",
      "upload failed: 'list' object has no attribute 'strip'",
      "upload failed: Python package 'oss2' not installed, run: pip3 install oss2",
      "upload failed: <exception raised by oss2>",
      "upload failed: OSS upload failed, status=",
      "upload failed: [Errno 28] No space left on device",
      "upload failed: 'ascii' codec can't encode character ",
      "upload failed: 'ascii' codec can't encode characters in position " }

(***************************************************************************)
(* C1                                                                      *)
(***************************************************************************)
\* C1 as stated: every run ends with exit code 0 or 1, 0 exactly when the upload
\* succeeded, 1 on every failure, argument parsing included.
C1_Original ==
    Exited => /\ exit_code \in {0, 1}
              /\ exit_code = 0 <=> Put2xx

(***************************************************************************)
(* C2                                                                      *)
(***************************************************************************)
\* C2 as stated: a --file path that names no regular file ends the run with
\* 'File not found: <that path>' and exit code 1, nothing having been looked up,
\* imported or put.
C2_Original ==
    (ParsedOk /\ FileMissing) =>
        /\ lookups = <<>> /\ ~imported /\ puts = <<>>
        /\ Exited => /\ exit_code = 1
                     /\ stderr = <<[text |-> "upload failed: File not found: ",
                                    arg |-> args.file]>>

(***************************************************************************)
(* C3                                                                      *)
(***************************************************************************)
StatusText ==
    (199 :> <<"1", "9", "9">>) @@ (200 :> <<"2", "0", "0">>) @@ (204 :> <<"2", "0", "4">>)
    @@ (299 :> <<"2", "9", "9">>) @@ (300 :> <<"3", "0", "0">>) @@ (403 :> <<"4", "0", "3">>)

\* C3: the upload succeeds exactly when the put returned 200 <= status <= 299:
\* upload_with_oss2 then returns without an error, and main goes on to print (with
\* a standard output in UTF-8 that is not full, the run ends with the four lines
\* and exit code 0).  For any other status N upload_with_oss2 raises, main prints
\* 'upload failed: OSS upload failed, status=N' to the error stream, prints no
\* success line and returns 1.
C3_StatusRange ==
    /\ (result # -1 /\ pc # "status") =>
          IF result >= 200 /\ result <= 299
          THEN /\ error.text # "OSS upload failed, status="
               /\ \A i \in 1..Len(stderr) :
                     stderr[i].text # "upload failed: OSS upload failed, status="
               /\ pc \notin {"except", "returned", "shutdown", "exited"} => error = NoText
               /\ (Exited /\ stdout_mode = "utf8") =>
                     exit_code = 0 /\ Len(stdout) = 4 /\ stderr = <<>>
          ELSE /\ error = [text |-> "OSS upload failed, status=", arg |-> StatusText[result]]
               /\ stdout = <<>>
               /\ pc \in {"except", "returned", "shutdown", "exited"}
               /\ MainReturned =>
                     /\ ret = 1
                     /\ stderr = <<[text |-> "upload failed: OSS upload failed, status=",
                                    arg |-> StatusText[result]]>>
               /\ Exited => exit_code = 1
    /\ (MainReturned /\ ret = 0) => (result >= 200 /\ result <= 299)

\* scenario C: the put returned 403
C3_Witness ==
    /\ Exited
    /\ result = 403
    /\ stderr = <<[text |-> "upload failed: OSS upload failed, status=",
                   arg |-> <<"4", "0", "3">>]>>
    /\ stdout = <<>>
    /\ exit_code = 1

(***************************************************************************)
(* C4                                                                      *)
(***************************************************************************)
\* C4: require_env(name, aliases) reads the candidates in the order name, then
\* each alias, and stops at the first whose value is not blank: it returns that
\* value stripped of whitespace, whatever the later candidates hold, and reads
\* none of them.  It fails if and only if every candidate is unset or blank; it
\* has then read every candidate, and the message lists them all in that order.
C4_RequireEnv ==
    (call.fn = "require_env" /\ pc = "called") =>
        LET candidates == <<call.name>> \o call.aliases
            hits == {i \in 1..Len(candidates) : NonBlank(environ[candidates[i]])}
        IN IF hits # {}
           THEN LET first == CHOOSE i \in hits : \A j \in hits : i <= j
                IN /\ lookups = SubSeq(candidates, 1, first)
                   /\ out.state = "returned"
                   /\ out.value # <<>>
                   /\ IsStripOf(out.value, environ[candidates[first]].val, Whitespace)
           ELSE /\ lookups = candidates
                /\ out.state = "raised"
                /\ out.error.text = "Missing required env var: "
                /\ Len(out.error.arg) = 2 * Len(candidates) - 1
                /\ \A i \in 1..Len(candidates) : out.error.arg[2 * i - 1] = candidates[i]
                /\ \A i \in 1..(Len(candidates) - 1) : out.error.arg[2 * i] = ", "

\* the name is blank (a form feed, a unit separator and a next-line character),
\* the first alias holds a value wrapped in whitespace, and a later alias, which
\* is not read, holds another value
C4_Witness ==
    /\ call.fn = "require_env"
    /\ pc = "called"
    /\ call.name = "FINE_OSS_ENDPOINT"
    /\ call.aliases = <<"FINE_OSS_ID", "FINE_OSS_ACCESS_KEY_ID">>
    /\ environ["FINE_OSS_ENDPOINT"] = SetTo(<<"\f", UNIT_SEPARATOR, NEXT_LINE>>)
    /\ environ["FINE_OSS_ID"] = SetTo(<<"\t", "y", " ">>)
    /\ environ["FINE_OSS_ACCESS_KEY_ID"] = SetTo(<<"x">>)
    /\ lookups = <<"FINE_OSS_ENDPOINT", "FINE_OSS_ID">>
    /\ out = Returned(<<"y">>)

(***************************************************************************)
(* C5                                                                      *)
(***************************************************************************)
\* C5: the key used for the put, the printed storage path and the public URL is
\* the --object-key argument with only its leading and trailing "/" removed; a key
\* that is empty after stripping ends the run with exit code 1 (with the message
\* "object key must not be empty" once the file and the endpoint are in order)
\* and never reaches the SDK.
C5_ObjectKey ==
    LET isStr == args.object_key # EMPTY_LIST
        emptyKey == isStr /\ \A i \in 1..Len(args.object_key) : args.object_key[i] = "/"
    IN /\ \A i \in 1..Len(puts) :
             /\ isStr
             /\ IsStripOf(puts[i].key, args.object_key, {"/"})
             /\ puts[i].key # <<>>
       /\ (ParsedOk /\ isStr /\ pc \notin {"is_file", "endpoint", "bucket", "object_key"}
           /\ ~FileMissing /\ args.file # EMPTY_LIST /\ NonBlank(environ["FINE_OSS_ENDPOINT"])) =>
             /\ IsStripOf(object_key, args.object_key, {"/"})
             /\ \A i \in 1..Len(puts) : puts[i].key = object_key
             /\ (Exited /\ emptyKey) =>
                   stderr = <<[text |-> "upload failed: object key must not be empty",
                               arg |-> <<>>]>>
       /\ (ParsedOk /\ Len(stdout) >= 2) =>
             /\ puts # <<>>
             /\ stdout[2].arg = bucket_name \o <<"/">> \o puts[1].key
       /\ (ParsedOk /\ Len(stdout) >= 3) =>
             EndsWith(stdout[3].arg, <<"/">> \o quote(puts[1].key))
       /\ (ParsedOk /\ emptyKey) =>
             /\ puts = <<>> /\ ~imported /\ stdout = <<>>
             /\ MainReturned => ret = 1
             /\ Exited => exit_code = 1

\* scenario B: --object-key /a//b/ is uploaded and printed as a//b
C5_Witness ==
    /\ Exited
    /\ args.object_key = <<"/", "a", "/", "/", "b", "/">>
    /\ Len(puts) = 1
    /\ puts[1].key = <<"a", "/", "/", "b">>
    /\ exit_code = 0
    /\ stdout[2].arg = bucket_name \o <<"/", "a", "/", "/", "b">>

(***************************************************************************)
(* C6, C7, C8: the endpoint helpers called on every bounded input          *)
(***************************************************************************)
HasScheme(s) == StartsWith(s, HTTP) \/ StartsWith(s, HTTPS)

\* C6 as stated: for any raw endpoint, normalize_endpoint returns a string that
\* begins with "http://" or "https://" and does not end with "/"; for a raw
\* endpoint lacking a scheme prefix the result begins with "https://".
C6_Original ==
    (call.fn = "normalize_endpoint" /\ pc = "called") =>
        /\ HasScheme(out.value)
        /\ ~EndsWith(out.value, <<"/">>)
        /\ ~HasScheme(call.raw) => StartsWith(out.value, HTTPS)

\* C7 as stated: for any endpoint that begins with "http://" or "https://",
\* normalizing the normalized endpoint changes nothing.
C7_Original ==
    (call.fn = "normalize_endpoint" /\ pc = "called" /\ HasScheme(call.raw)) =>
        normalize_endpoint(out.value) = out.value

\* the endpoint with its scheme prefix, if it has one, removed
WithoutSchemePrefix(s) ==
    IF StartsWith(s, HTTPS) THEN SubSeq(s, Len(HTTPS) + 1, Len(s))
    ELSE IF StartsWith(s, HTTP) THEN SubSeq(s, Len(HTTP) + 1, Len(s))
    ELSE s

\* C8 as stated: build_public_url(endpoint, b, k), the endpoint being a host h
\* with an optional scheme prefix, is "https://{b}.{h}/" followed by the
\* percent-encoded k, only the scheme prefix having been removed from the
\* endpoint, and decoding the path after "https://{b}.{h}/" recovers k.
C8_Original ==
    (call.fn = "build_public_url" /\ pc = "called") =>
        LET base == HTTPS \o call.bucket \o <<".">> \o WithoutSchemePrefix(call.raw) \o <<"/">>
        IN /\ out.value = base \o quote(call.key)
           /\ unquote(SubSeq(out.value, Len(base) + 1, Len(out.value))) = call.key

(***************************************************************************)
(* C9                                                                      *)
(***************************************************************************)
\* C9 as stated: a successful run writes exactly the four success lines to
\* standard output and nothing to the error stream; a failed run writes exactly
\* one line, prefixed 'upload failed: ', to the error stream and nothing to
\* standard output.
C9_Original ==
    Exited =>
        IF exit_code = 0
        THEN Len(stdout) = 4 /\ stdout[1].text = "Uploaded: " /\ stderr = <<>>
        ELSE Len(stderr) = 1 /\ stderr[1].text \in MarkedTexts /\ stdout = <<>>

(***************************************************************************)
(* C10                                                                     *)
(***************************************************************************)
PutPreconditions ==
    /\ ~FileMissing /\ args.file # EMPTY_LIST
    /\ NonBlank(environ["FINE_OSS_ENDPOINT"])
    /\ args.object_key # EMPTY_LIST
    /\ \E i \in 1..Len(args.object_key) : args.object_key[i] # "/"
    /\ imported
    /\ NonBlank(environ["FINE_OSS_ACCESS_KEY_ID"]) \/ NonBlank(environ["FINE_OSS_ID"])
    /\ NonBlank(environ["FINE_OSS_ACCESS_KEY_SECRET"]) \/ NonBlank(environ["FINE_OSS_SECRET"])
    /\ access_key_id # <<>> /\ access_key_secret # <<>>
    /\ endpoint # <<>> /\ object_key # <<>>

\* the texts the four success lines begin with, upload.py:91-95
SuccessTexts == {"Uploaded: ", "OSS Path: oss://", "URL: ", LOCALIZED_LABEL}
SuccessLinePrinted == \E i \in 1..Len(stdout) : stdout[i].text \in SuccessTexts

\* C10 as stated: the put is invoked at most once and only after the file check,
\* the endpoint, the key, the import and both credentials succeeded; the success
\* lines and exit code 0 are produced only after that put returned a 2xx status.
C10_Original ==
    /\ Len(puts) <= 1
    /\ puts # <<>> => PutPreconditions
    /\ (SuccessLinePrinted \/ exit_code = 0) => Put2xx

\* C10 amended: the put is invoked at most once, never again after a failure, and
\* only after the file check, the endpoint, the key, the import and both
\* credentials succeeded; the success lines, main's return value 0 and, in a run
\* whose command line parse_args accepted, exit code 0 are produced only after
\* that single put returned a 2xx status.
C10_SinglePut ==
    /\ Len(puts) <= 1
    /\ puts # <<>> => PutPreconditions
    /\ (SuccessLinePrinted \/ ret = 0 \/ (exit_code = 0 /\ ParsedOk)) => Put2xx

\* the put returned 300: the run ended with that one put, no success line and 1
C10_Witness ==
    /\ Exited
    /\ Len(puts) = 1
    /\ result = 300
    /\ ~SuccessLinePrinted
    /\ ret = 1
    /\ exit_code = 1

====
